---- MODULE Spec2Model ----
(***************************************************************************)
(* Signal generator for the RP2040 (anamvelasco/ClashOfTheTitans).         *)
(*                                                                         *)
(* Two builds of the program are modelled side by side; `variant` says     *)
(* which one is running:                                                   *)
(*   "interrupt"  src/main.c             button and keypad through         *)
(*                                       gpio_callback, main loop samples  *)
(*   "polling"    src/unnamed/part_000   keypad polled by getKeypadInput,  *)
(*                                       button polled and on an interrupt *)
(*                                                                         *)
(* Numbers.  The keypad has no decimal point, so every entered value is a  *)
(* natural number; the float variables hold integers (strtof rounds them   *)
(* to 24 significant bits, RoundToFloat).  Sample values are kept in fixed *)
(* point, in units of 1/2000 mV, and sin/fmod are evaluated at sample      *)
(* times that are multiples of 1/5 s, where frac(f*t) is exact for the     *)
(* integer frequencies the keypad can enter; sin is rounded to 1/1000.     *)
(*                                                                         *)
(* Time.  Both debounce gates only use currentTime - lastAcceptedTime, so *)
(* the model keeps that difference (`elapsed`).  It advances in ticks of    *)
(* half an interval and stops one tick past the interval: the gates        *)
(* compare it with the interval only, so all later times act alike.        *)
(***************************************************************************)
EXTENDS Integers, Sequences, FiniteSets, TLC

(* ------------------------- program constants --------------------------- *)
DEBOUNCE_MS == 200
DEBOUNCE_DELAY_US == 10000
AMPLITUDE_DEFAULT == 100
AMPLITUDE_MIN == 100
AMPLITUDE_MAX == 2500
FREQUENCY_MIN == 1
FREQUENCY_MAX == 12000000
DAC_MAX_VALUE == 255
\* VREF = 3.3 V, in millivolts
VREF_MV == 3300
ROWS == 4
COLS == 4
WAVEFORM_BUTTON_PIN == 16
\* sizeof(inputBuffer) in main.c, sizeof(amplitudeStr) in the polling build
INPUT_BUFFER_SIZE == 20
STR_SIZE == 16

SINE == 0
SQUARE == 1
SAWTOOTH == 2
TRIANGULAR == 3

rowPins == <<18, 19, 20, 21>>
colPins == <<22, 26, 27, 28>>
keys == << <<"1", "2", "3", "A">>,
           <<"4", "5", "6", "B">>,
           <<"7", "8", "9", "C">>,
           <<"*", "0", "#", "D">> >>

\* '\0': no key / no parameter selected
NUL == "NUL"
\* no position of the keypad: every column reads high
NoPos == <<0, 0>>

(* ------------------------------ bounds --------------------------------- *)
\* the environment presses a digit key only while fewer than MaxDigits
\* digits are buffered
MaxDigits == 2
\* iterations of the polling build's `for (i < 256)` sample block
SamplesPerBlock == 2

\* the environment of the buffer-filling runs presses a digit key only while
\* fewer than MaxTyped digits have been typed into the entry
MaxTyped == 20

\* the clocked runs stop sampling when the clock has reached MaxClock fifths
\* of a second
MaxClock == 4

\* keypad positions <<row, col>> the environment presses: A B C D 2 *
KeypadInputs == {<<1, 4>>, <<2, 4>>, <<3, 4>>, <<4, 4>>, <<1, 2>>, <<4, 1>>}
\* clock readings of the sampling loop, in fifths of a second
SampleTimes == {0, 1}

VARIABLES
    variant,           \* which build runs
    current_waveform,  \* current_waveform / currentWaveform
    amplitude,         \* mV
    frequency,         \* Hz
    dc_offset,         \* dc_offset / dcOffset, mV
    paramType,         \* main.c paramType; polling: which read* function runs
    inputBuffer,       \* main.c inputBuffer; polling: amplitudeStr/frequencyStr/offsetStr
    inputIndex,        \* main.c inputIndex; polling: amplitudeIndex/...
    elapsed,           \* now - last_interrupt_time (ms) / now - lastButtonPressTime (us)
    pc,                \* position of the main loop
    key,               \* polling: the key getKeypadInput found, until it is handled
    held,              \* polling: keypad position held down, or NoPos
    buttonDown,        \* polling: level of the waveform button (TRUE = pressed)
    i,                 \* polling: index of the sample block's for loop
    dac_value,         \* local dac_value: the code of the sample being written
    scaled,            \* the same sample before conversion, in 1/1000 code
    value,             \* local value: the sample as synthesized, in 1/2000 mV
    time_arg,          \* local time_step / current_time: the time fed to the formula
    now,               \* time_us_64(): the clock, in fifths of a second
    last_time,         \* main.c generate_waveform: static last_time
    reads,             \* main.c: the fields generate_waveform has read so far
    sess,              \* history: the entry session of the keys handled so far
    trail,             \* history: the waveforms left by the last four advances
    lastEvent,         \* history: the latest event gpio_callback saw, and its fate
    step,              \* history: accepted events of the scripted scenario
    prev_arg,          \* history: the time fed to the formula for the sample before
    stored             \* history: per field, the values stored in it so far (ever)
                       \* and those it has held since the sample in hand began (fresh)

store == <<current_waveform, amplitude, frequency, dc_offset>>
entry == <<paramType, inputBuffer, inputIndex>>
output == <<dac_value, scaled, value, time_arg>>
clock == <<now, last_time, prev_arg>>
preempt == <<reads, stored>>
aux == <<now, last_time, prev_arg, reads, stored>>
vars == <<variant, current_waveform, amplitude, frequency, dc_offset, paramType,
          inputBuffer, inputIndex, elapsed, pc, key, held, buttonDown, i,
          dac_value, scaled, value, time_arg, now, last_time, reads,
          sess, trail, lastEvent, step, prev_arg, stored>>
hist == <<sess, trail, lastEvent, step>>

(* ------------------------------ helpers -------------------------------- *)
Min(a, b) == IF a < b THEN a ELSE b
Max(a, b) == IF a > b THEN a ELSE b
Abs(x) == IF x < 0 THEN -x ELSE x
\* floor(x * m / d) without forming x * m (d > 0, m >= 0)
MulDiv(x, m, d) == (x \div d) * m + ((x % d) * m) \div d

SelectorKeys == {"A", "B", "C"}
DigitChars == {"0", "1", "2", "3", "4", "5", "6", "7", "8", "9"}
isdigit(c) == c \in DigitChars
DigitValue(c) ==
    CASE c = "0" -> 0 [] c = "1" -> 1 [] c = "2" -> 2 [] c = "3" -> 3
      [] c = "4" -> 4 [] c = "5" -> 5 [] c = "6" -> 6 [] c = "7" -> 7
      [] c = "8" -> 8 [] c = "9" -> 9

KeyAt(pos) == keys[pos[1]][pos[2]]

\* the decimal number a string of digit characters denotes ("" denotes 0)
RECURSIVE DecimalValue(_)
DecimalValue(s) ==
    IF s = <<>> THEN 0
    ELSE 10 * DecimalValue(SubSeq(s, 1, Len(s) - 1)) + DigitValue(s[Len(s)])

\* the nearest float (24-bit significand, ties to even) to a natural n < 2^31
RECURSIVE UlpOf(_, _)
UlpOf(n, u) == IF n \div u < 16777216 THEN u ELSE UlpOf(n, 2 * u)
RoundToFloat(n) ==
    LET u == UlpOf(n, 1)
        q == n \div u
        r == n % u
    IN  IF 2 * r > u \/ (2 * r = u /\ q % 2 = 1) THEN (q + 1) * u ELSE q * u

\* fault model: the digits parsed into a 16-bit integer
strtofShort(s) == DecimalValue(s) % 65536

\* strtof(buffer, NULL) on a buffer of digits
strtof(s) == RoundToFloat(DecimalValue(s))

fmaxf(a, b) == IF a > b THEN a ELSE b
fminf(a, b) == IF a < b THEN a ELSE b

(* ------------------- waveform synthesis and quantizing ------------------ *)
\* round(1000 * sin(2*pi*j/5)), j = 0..4
SinTable == <<0, 951, 588, -588, -951>>
PhaseDen == Len(SinTable)
\* frac(f * t) in fifths, for f in Hz and t in fifths of a second
PhaseOf(f, t) == ((f % PhaseDen) * (t % PhaseDen)) % PhaseDen
\* 1000 * sinf(2 * M_PI * f * t)
SinMilli(f, t) == SinTable[PhaseOf(f, t) + 1]
\* 1000 * fmod(f * t, 1)
FracMilli(f, t) == (PhaseOf(f, t) * 1000) \div PhaseDen

\* main.c generate_waveform: `value` in units of 1/2000 mV
WaveValueI(w, a, f, dc, t) ==
    CASE w = SINE -> a * (SinMilli(f, t) + 1000) + 2000 * dc
      [] w = SQUARE ->
            a * (IF SinMilli(f, t) > 0 THEN 1 ELSE -1) * 1000 + 1000 + 2000 * dc
      [] w = SAWTOOTH -> a * (2 * FracMilli(f, t) - 1000) + 1000 + 2000 * dc
      [] w = TRIANGULAR ->
            2 * a * (1000 - Abs(4 * FracMilli(f, t) - 2000)) + 2000 * dc

\* (value / VREF) * DAC_MAX_VALUE, in 1/1000 code
ScaledI(u) == MulDiv(u, DAC_MAX_VALUE * 1000, 2 * VREF_MV)

\* what a float-to-uint conversion of a value <= -1 may give: the conversion
\* is undefined; builds give 0 (a saturating conversion) or a wrapped code
UndefinedUint == {0, 2147483647}

\* (uint)((value / VREF) * DAC_MAX_VALUE): the codes the conversion may give
QuantizeI(u) ==
    IF u >= 0 THEN {MulDiv(u, DAC_MAX_VALUE, 2 * VREF_MV)}
    ELSE IF u * DAC_MAX_VALUE > -(2 * VREF_MV) THEN {0}
    ELSE UndefinedUint

\* gpio_put(DAC_PIN, dac_value): the second parameter is a bool
GpioPutLevel(v) == IF v # 0 THEN 1 ELSE 0

\* polling build, main: `value` in units of 1/2000 mV (value is in volts)
WaveValueP(w, a, f, dc, t) ==
    CASE w = SINE -> 2 * a * SinMilli(f, t) + 2000 * dc
      [] w = SQUARE ->
            IF SinMilli(f, t) >= 0 THEN 2000 * a + 2000 * dc
            ELSE -(2000 * a) + 2000 * dc
      [] w = SAWTOOTH -> 2 * a * (2 * FracMilli(f, t) - 1000) + 2000 * dc
      [] w = TRIANGULAR ->
            LET d == IF FracMilli(f, t) < 500 THEN FracMilli(f, t)
                     ELSE FracMilli(f, t) - 1000
            IN  (2 * Abs(2 * d) - 1000) * a + 2000 * dc

\* scaled_value = (value + 1.0f) * 127.5f, in 1/1000 code
ScaledP(u) == MulDiv(u + 2000000, 51, 800)

\* (uint8_t)fminf(fmaxf(scaled_value, 0.0f), 255.0f)
QuantizeP(u) ==
    LET m == fminf(fmaxf(ScaledP(u), 0), 255 * 1000)
    IN  m \div 1000

\* write_dac: bit i of the value on dacPins[i]
RECURSIVE WriteDacBits(_, _)
WriteDacBits(byte, n) ==
    IF n = 0 THEN 0
    ELSE (byte % 2) + 2 * WriteDacBits(byte \div 2, n - 1)
write_dac(byte) == WriteDacBits(byte, 8)

(* --------------------------- parameter store ---------------------------- *)
\* fault model: the modulus one short, TRIANGULAR never reached
NextWaveformShort(w) == (w + 1) % 3

\* (Waveform)((current_waveform + 1) % 4)
NextWaveform(w) == (w + 1) % 4

\* the entry state handle_input works on
EntryState ==
    [amplitude |-> amplitude, frequency |-> frequency, dc_offset |-> dc_offset,
     paramType |-> paramType, inputBuffer |-> inputBuffer,
     inputIndex |-> inputIndex]

\* handle_input with the digits taking effect as they are typed: the selected
\* parameter follows the buffer after every digit key
handle_inputLive(e, k) ==
    IF k = "D" THEN
        [e EXCEPT
           !.amplitude = IF e.paramType = "A" THEN strtof(e.inputBuffer) ELSE @,
           !.frequency = IF e.paramType = "B" THEN strtof(e.inputBuffer) ELSE @,
           !.dc_offset = IF e.paramType = "C" THEN strtof(e.inputBuffer) ELSE @,
           !.inputIndex = 0,
           !.inputBuffer = <<>>]
    ELSE IF k \in SelectorKeys THEN [e EXCEPT !.paramType = k]
    ELSE IF isdigit(k) /\ e.inputIndex < INPUT_BUFFER_SIZE - 1 THEN
        LET b == SubSeq(e.inputBuffer, 1, e.inputIndex) \o <<k>>
        IN  [e EXCEPT
               !.amplitude = IF e.paramType = "A" THEN strtof(b) ELSE @,
               !.frequency = IF e.paramType = "B" THEN strtof(b) ELSE @,
               !.dc_offset = IF e.paramType = "C" THEN strtof(b) ELSE @,
               !.inputBuffer = b,
               !.inputIndex = @ + 1]
    ELSE e

\* main.c handle_input(key), as a function of the entry state
handle_input(e, k) ==
    IF k = "D" THEN
        [e EXCEPT
           !.amplitude = IF e.paramType = "A" THEN strtof(e.inputBuffer) ELSE @,
           !.frequency = IF e.paramType = "B" THEN strtof(e.inputBuffer) ELSE @,
           !.dc_offset = IF e.paramType = "C" THEN strtof(e.inputBuffer) ELSE @,
           !.inputIndex = 0,
           !.inputBuffer = <<>>]
    ELSE IF k \in SelectorKeys THEN [e EXCEPT !.paramType = k]
    ELSE IF isdigit(k) /\ e.inputIndex < INPUT_BUFFER_SIZE - 1 THEN
        [e EXCEPT !.inputBuffer = SubSeq(@, 1, e.inputIndex) \o <<k>>,
                  !.inputIndex = @ + 1]
    ELSE e

\* the keys of the closed positions in the order the scan of gpio_callback
\* meets them: rows outside, columns inside
RECURSIVE ScanFrom(_, _)
ScanFrom(n, closed) ==
    IF n = ROWS * COLS THEN <<>>
    ELSE LET pos == <<(n \div COLS) + 1, (n % COLS) + 1>>
         IN  (IF pos \in closed THEN <<KeyAt(pos)>> ELSE <<>>)
             \o ScanFrom(n + 1, closed)
ScanKeys(closed) == ScanFrom(0, closed)

\* handle_input called for each scanned key in turn
RECURSIVE HandleAll(_, _)
HandleAll(e, ks) ==
    IF ks = <<>> THEN e ELSE HandleAll(handle_input(e, Head(ks)), Tail(ks))

(* ---------------- history: the entry session of the spec ---------------- *)
\* Idle -> Selecting(param) -> Idle, driven by the keys the program handled;
\* digs are the digits pressed since the latest selector key.
SessIdle == [st |-> "idle", par |-> NUL, digs |-> <<>>]
SessStep(s, k) ==
    IF k \in SelectorKeys THEN [st |-> "selecting", par |-> k, digs |-> <<>>]
    ELSE IF isdigit(k) /\ s.st = "selecting" THEN [s EXCEPT !.digs = Append(@, k)]
    ELSE IF k = "D" THEN SessIdle
    ELSE s
RECURSIVE SessAll(_, _)
SessAll(s, ks) ==
    IF ks = <<>> THEN s ELSE SessAll(SessStep(s, Head(ks)), Tail(ks))

\* the waveform an advance leaves, appended to the last (at most) four
TrailAfter(tr, w) ==
    LET all == Append(tr, w)
    IN  IF Len(all) > 4 THEN Tail(all) ELSE all

\* the fields of the parameter store, in the order generate_waveform reads
\* them for a sample: the switch, then the operands of the formula
Fields == <<"current_waveform", "amplitude", "frequency", "dc_offset">>
FieldSet == {Fields[n] : n \in 1..Len(Fields)}
\* no sample before this one
NoTime == <<>>

\* the value a field of the store holds
FieldValue(f) ==
    CASE f = "current_waveform" -> current_waveform
      [] f = "amplitude" -> amplitude
      [] f = "frequency" -> frequency
      [] f = "dc_offset" -> dc_offset

\* fault models of the load: a copy of the fields taken at boot is read
\* instead of the fields; only the low byte of the field is loaded
LoadAtBoot(f) ==
    CASE f = "current_waveform" -> SINE
      [] f = "amplitude" -> 1000
      [] f = "frequency" -> 10
      [] f = "dc_offset" -> 500
LoadLowByte(f) == FieldValue(f) % 256

\* one load of a field by the sampling loop: the fields are aligned 32-bit
\* objects (float, enum), read by a single load instruction
Load(f) == FieldValue(f)

\* the parameter store as it stands, field by field
StoreImage == [current_waveform |-> current_waveform, amplitude |-> amplitude,
               frequency |-> frequency, dc_offset |-> dc_offset]

(* ------------------------------- Init ----------------------------------- *)
Init ==
    /\ variant \in {"interrupt", "polling"}
    /\ current_waveform = SINE
    /\ amplitude = IF variant = "interrupt" THEN 1000 ELSE AMPLITUDE_DEFAULT
    /\ frequency = 10
    /\ dc_offset = IF variant = "interrupt" THEN 500
                   ELSE (AMPLITUDE_MIN + AMPLITUDE_MAX) \div 2
    /\ paramType = NUL
    /\ inputBuffer = <<>>
    /\ inputIndex = 0
    /\ elapsed = 0
    /\ pc = IF variant = "interrupt" THEN "gw_compute" ELSE "scan"
    /\ key = NUL
    /\ held = NoPos
    /\ buttonDown = FALSE
    /\ i = 0
    /\ dac_value = 0
    /\ scaled = 0
    /\ value = 0
    /\ time_arg = 0
    /\ now = 0
    /\ last_time = 0
    /\ reads = <<>>
    /\ sess = SessIdle
    /\ trail = <<>>
    /\ lastEvent = "none"
    /\ step = 0
    /\ prev_arg = NoTime
    /\ stored = [f \in FieldSet |-> [ever |-> {StoreImage[f]}, fresh |-> {StoreImage[f]}]]

(* ------------------------------- clock ---------------------------------- *)
\* the interval the gate of the running build compares `elapsed` with
DebounceInterval == IF variant = "interrupt" THEN DEBOUNCE_MS
                    ELSE DEBOUNCE_DELAY_US
\* one tick: half a debounce interval
TickLength == DebounceInterval \div 2
Tick ==
    /\ elapsed' = Min(elapsed + TickLength, DebounceInterval + TickLength)
    /\ UNCHANGED <<variant, store, entry, pc, key, held, buttonDown, i, output,
                   hist, aux>>

(* ----------------------- interrupt build: main.c ------------------------ *)
\* fault model: the interval taken in the wrong unit, 200 us for 200 ms
DebouncePassedMicros(e) == e > DEBOUNCE_MS \div 1000

\* current_time - last_interrupt_time > DEBOUNCE_MS
DebouncePassed(e) == e > DEBOUNCE_MS

\* gpio_callback(gpio, events) with the keypad positions in `closed` closed
gpio_callback(gpio, closed) ==
    /\ variant = "interrupt"
    /\ IF DebouncePassed(elapsed)
       THEN /\ elapsed' = 0
            /\ IF gpio = WAVEFORM_BUTTON_PIN
               THEN /\ current_waveform' = NextWaveform(current_waveform)
                    /\ trail' = TrailAfter(trail, current_waveform)
                    /\ lastEvent' = "button"
                    /\ UNCHANGED <<amplitude, frequency, dc_offset, entry, sess>>
               ELSE \E e \in {HandleAll(EntryState, ScanKeys(closed))} :
                        /\ amplitude' = e.amplitude
                        /\ frequency' = e.frequency
                        /\ dc_offset' = e.dc_offset
                        /\ paramType' = e.paramType
                        /\ inputBuffer' = e.inputBuffer
                        /\ inputIndex' = e.inputIndex
                        /\ sess' = SessAll(sess, ScanKeys(closed))
                        /\ lastEvent' = "key"
                        /\ UNCHANGED <<current_waveform, trail>>
       ELSE /\ lastEvent' = IF gpio = WAVEFORM_BUTTON_PIN THEN "button_ignored"
                           ELSE "key_ignored"
            /\ UNCHANGED <<elapsed, store, entry, sess, trail>>
    /\ UNCHANGED <<variant, pc, key, held, buttonDown, i, output, clock, reads>>

\* a falling edge on the waveform button
ButtonIrq == gpio_callback(WAVEFORM_BUTTON_PIN, {}) /\ UNCHANGED <<step, stored>>

\* a falling edge on the column of the key at `pos`, the key still closed
\* when the callback scans
KeypadIrq(pos) == gpio_callback(colPins[pos[2]], {pos}) /\ UNCHANGED <<step, stored>>

\* a falling edge on column `col` whose key has opened again before the scan
KeypadBounceIrq(col) == gpio_callback(colPins[col], {}) /\ UNCHANGED <<step, stored>>

\* generate_waveform up to the conversion, with time_step = t
GwCompute(t) ==
    /\ variant = "interrupt"
    /\ pc = "gw_compute"
    /\ LET u == WaveValueI(current_waveform, amplitude, frequency, dc_offset, t)
       IN  /\ value' = u
           /\ dac_value' \in QuantizeI(u)
           /\ scaled' = ScaledI(u)
    /\ time_arg' = t
    /\ pc' = "gw_put"
    /\ UNCHANGED <<variant, store, entry, elapsed, key, held, buttonDown, i,
                   hist, preempt>>

\* gpio_put(DAC_PIN, dac_value) and the return to the main loop, where the
\* locals of generate_waveform end
GwPut ==
    /\ variant = "interrupt"
    /\ pc = "gw_put"
    /\ dac_value' = 0
    /\ scaled' = 0
    /\ value' = 0
    /\ time_arg' = 0
    /\ pc' = "gw_compute"
    /\ UNCHANGED <<variant, store, entry, elapsed, key, held, buttonDown, i,
                   hist, preempt>>

(* -------------------- polling build: unnamed/part_000 ------------------- *)
\* changeWaveform()
changeWaveform ==
    /\ current_waveform' = NextWaveform(current_waveform)
    /\ trail' = TrailAfter(trail, current_waveform)

\* currentTime - lastButtonPressTime >= DEBOUNCE_DELAY_US
DebounceDelayPassed(e) == e >= DEBOUNCE_DELAY_US

\* waveformButtonCallback(gpio, events)
waveformButtonCallback(gpio, events) ==
    /\ variant = "polling"
    /\ IF DebounceDelayPassed(elapsed)
       THEN /\ IF gpio = WAVEFORM_BUTTON_PIN /\ events = "GPIO_IRQ_EDGE_RISE"
               THEN changeWaveform
               ELSE UNCHANGED <<current_waveform, trail>>
            /\ elapsed' = 0
       ELSE UNCHANGED <<elapsed, current_waveform, trail>>
    /\ UNCHANGED <<variant, amplitude, frequency, dc_offset, entry, pc, key, held,
                   i, output, sess, lastEvent, step, aux>>

\* the events setup_gpio enables the button interrupt for
EnabledButtonEvents == {"GPIO_IRQ_EDGE_FALL"}

\* the button goes down: a falling edge, and the level the main loop polls
ButtonPress ==
    /\ ~buttonDown
    /\ buttonDown' = TRUE
    /\ \E ev \in EnabledButtonEvents : waveformButtonCallback(WAVEFORM_BUTTON_PIN, ev)

\* a contact bounce while the button is down: another falling edge
ButtonBounce ==
    /\ buttonDown
    /\ UNCHANGED buttonDown
    /\ \E ev \in EnabledButtonEvents : waveformButtonCallback(WAVEFORM_BUTTON_PIN, ev)

\* the button goes up: a rising edge, which raises no interrupt
ButtonRelease ==
    /\ variant = "polling"
    /\ buttonDown
    /\ buttonDown' = FALSE
    /\ UNCHANGED <<variant, store, entry, elapsed, pc, key, held, i, output, hist, aux>>

\* a key of the keypad goes down / up
KeyPress(pos) ==
    /\ variant = "polling"
    /\ held = NoPos
    /\ held' = pos
    /\ UNCHANGED <<variant, store, entry, elapsed, pc, key, buttonDown, i, output,
                   hist, aux>>

KeyRelease ==
    /\ variant = "polling"
    /\ held # NoPos
    /\ held' = NoPos
    /\ UNCHANGED <<variant, store, entry, elapsed, pc, key, buttonDown, i, output,
                   hist, aux>>

\* getKeypadInput up to its wait for the release: no key down gives '\0'
\* at once, a key down is latched and then waited for
ScanKeypad(pcNoKey, pcWait) ==
    IF held = NoPos
    THEN /\ key' = NUL
         /\ pc' = pcNoKey
    ELSE /\ key' = KeyAt(held)
         /\ pc' = pcWait

\* main: key = getKeypadInput(), no key down or a key found
MainScan ==
    /\ variant = "polling"
    /\ pc = "scan"
    /\ ScanKeypad("button", "wait_release")
    /\ UNCHANGED <<variant, store, entry, elapsed, held, buttonDown, i, output,
                   hist, aux>>

\* main: `while (!gpio_get(col)) {}` ends, getKeypadInput returns, and main
\* calls readAmplitude/readFrequency/readDCOffset on 'A'/'B'/'C'; main does
\* not read its `key` again, and read* starts with a `key` of its own
MainDispatch ==
    /\ variant = "polling"
    /\ pc = "wait_release"
    /\ held = NoPos
    /\ IF key \in SelectorKeys
       THEN /\ paramType' = key
            /\ inputBuffer' = <<>>
            /\ inputIndex' = 0
            /\ pc' = "read_scan"
       ELSE /\ UNCHANGED entry
            /\ pc' = "button"
    /\ sess' = SessStep(sess, key)
    /\ key' = NUL
    /\ UNCHANGED <<variant, store, elapsed, held, buttonDown, i, output,
                   trail, lastEvent, step, aux>>

\* read*: key = getKeypadInput() inside `while (key != 'D')`; with no key
\* down the iteration changes nothing and the loop goes round
ReadScan ==
    /\ variant = "polling"
    /\ pc = "read_scan"
    /\ ScanKeypad("read_scan", "read_wait")
    /\ UNCHANGED <<variant, store, entry, elapsed, held, buttonDown, i, output,
                   hist, aux>>

\* the range read* clamps its parameter into
RangeMin(p) == CASE p = "A" -> AMPLITUDE_MIN
                 [] p = "B" -> FREQUENCY_MIN
                 [] p = "C" -> AMPLITUDE_MIN \div 2
RangeMax(p) == CASE p = "A" -> AMPLITUDE_MAX
                 [] p = "B" -> FREQUENCY_MAX
                 [] p = "C" -> AMPLITUDE_MAX \div 2

\* fminf(fmaxf(strtof(str, NULL), MIN), MAX)
ReadValue(p, str) == fminf(fmaxf(strtof(str), RangeMin(p)), RangeMax(p))

\* read*: the key is released and handled: a digit is stored at the index
\* (the code checks no bound), 'D' ends the loop and commits, others are
\* dropped; the next getKeypadInput overwrites `key`
ReadKey ==
    /\ variant = "polling"
    /\ pc = "read_wait"
    /\ held = NoPos
    /\ IF key = "D"
       THEN /\ amplitude' = IF paramType = "A" THEN ReadValue("A", inputBuffer)
                            ELSE amplitude
            /\ frequency' = IF paramType = "B" THEN ReadValue("B", inputBuffer)
                            ELSE frequency
            /\ dc_offset' = IF paramType = "C" THEN ReadValue("C", inputBuffer)
                            ELSE dc_offset
            /\ paramType' = NUL
            /\ inputBuffer' = <<>>
            /\ inputIndex' = 0
            /\ pc' = "button"
       ELSE /\ IF isdigit(key)
               THEN /\ inputBuffer' = SubSeq(inputBuffer, 1, inputIndex) \o <<key>>
                    /\ inputIndex' = inputIndex + 1
               ELSE UNCHANGED <<inputBuffer, inputIndex>>
            /\ pc' = "read_scan"
            /\ UNCHANGED <<amplitude, frequency, dc_offset, paramType>>
    /\ sess' = SessStep(sess, key)
    /\ key' = NUL
    /\ UNCHANGED <<variant, current_waveform, elapsed, held, buttonDown, i, output,
                   trail, lastEvent, step, aux>>

\* main: if (!gpio_get(waveformButtonPin)) { sleep_ms(50); ...
PollButton ==
    /\ variant = "polling"
    /\ pc = "button"
    /\ pc' = IF buttonDown THEN "button_check" ELSE "samples"
    /\ UNCHANGED <<variant, store, entry, elapsed, key, held, buttonDown, i, output,
                   hist, aux>>

\* ... if (!gpio_get(waveformButtonPin)) { changeWaveform(); sleep_ms(500); } }
PollButtonAgain ==
    /\ variant = "polling"
    /\ pc = "button_check"
    /\ IF buttonDown THEN changeWaveform ELSE UNCHANGED <<current_waveform, trail>>
    /\ pc' = "samples"
    /\ UNCHANGED <<variant, amplitude, frequency, dc_offset, entry, elapsed, key,
                   held, buttonDown, i, output, sess, lastEvent, step, aux>>

\* one iteration of the sample block, with current_time = t
Sample(t) ==
    /\ variant = "polling"
    /\ pc = "samples"
    /\ i < SamplesPerBlock
    /\ LET u == WaveValueP(current_waveform, amplitude, frequency, dc_offset, t)
       IN  /\ value' = u
           /\ scaled' = ScaledP(u)
           /\ dac_value' = QuantizeP(u)
    /\ time_arg' = t
    /\ i' = i + 1
    /\ UNCHANGED <<variant, store, entry, elapsed, pc, key, held, buttonDown,
                   hist, preempt>>

\* the sample block is done, its locals end: back to the top of while (true)
EndBlock ==
    /\ variant = "polling"
    /\ pc = "samples"
    /\ i >= SamplesPerBlock
    /\ i' = 0
    /\ dac_value' = 0
    /\ scaled' = 0
    /\ value' = 0
    /\ time_arg' = 0
    /\ pc' = "scan"
    /\ UNCHANGED <<variant, store, entry, elapsed, key, held, buttonDown, hist, preempt>>

(* --------------------------- specifications ----------------------------- *)
\* the environment stops pressing digits at MaxDigits buffered digits
DigitAllowed(pos) == isdigit(KeyAt(pos)) => Len(inputBuffer) < MaxDigits

\* Interrupts and the hands act between two samples.  While a sample is
\* converted and put out, or the sample block runs, the main program reads
\* nothing they change once the sample is computed, so an event in between
\* is the same event right after it.
IrqPoint == pc # "gw_put" /\ ~(pc = "samples" /\ i > 0)

\* Only getKeypadInput reads the keypad of the polling build.  A key goes
\* down where the program is about to scan: a key pressed earlier and still
\* down is the same key pressed there, one pressed and released earlier is
\* never seen.  It goes up where the program waits for its release.
PressPoint == pc \in {"scan", "read_scan"}
ReleasePoint == pc \in {"wait_release", "read_wait"}

\* the steps of the main program: main.c, while (true) generate_waveform()
MainLoopI ==
    \/ \E t \in SampleTimes : GwCompute(t) /\ UNCHANGED clock
    \/ GwPut /\ UNCHANGED clock

\* the steps of the main program: the polling build's while (true)
MainLoopP ==
    \/ MainScan
    \/ MainDispatch
    \/ ReadScan
    \/ ReadKey
    \/ PollButton
    \/ PollButtonAgain
    \/ \E t \in SampleTimes : Sample(t) /\ UNCHANGED clock
    \/ EndBlock /\ UNCHANGED clock

MainLoop == MainLoopI \/ MainLoopP

\* the interrupts and the hands on the keypad and the button, the keypad
\* pressed at the positions in K
Environment(K) ==
    \/ IrqPoint /\ Tick
    \/ IrqPoint /\ ButtonIrq
    \/ \E pos \in K : IrqPoint /\ DigitAllowed(pos) /\ KeypadIrq(pos)
    \/ \E col \in 1..COLS : IrqPoint /\ KeypadBounceIrq(col)
    \/ IrqPoint /\ ButtonPress
    \/ IrqPoint /\ ButtonBounce
    \/ IrqPoint /\ ButtonRelease
    \/ \E pos \in K : PressPoint /\ DigitAllowed(pos) /\ KeyPress(pos)
    \/ ReleasePoint /\ KeyRelease

Next == MainLoop \/ Environment(KeypadInputs)

Spec == Init /\ [][Next]_vars

(* ------------------- the end-to-end scenario of the spec ---------------- *)
\* the keys of the scenario; one press of the waveform button follows them
ScriptKeys == <<"A", "2", "0", "0", "0", "D",
                "B", "9", "9", "9", "9", "9", "9", "9", "D">>
PosOf(k) == CHOOSE pos \in (1..ROWS) \X (1..COLS) : KeyAt(pos) = k

\* the next event of the scenario arrives, late enough for the gate
ScriptedIrq ==
    /\ step < Len(ScriptKeys) + 1
    /\ DebouncePassed(elapsed)
    /\ IF step < Len(ScriptKeys)
       THEN LET pos == PosOf(ScriptKeys[step + 1])
            IN  gpio_callback(colPins[pos[2]], {pos})
       ELSE gpio_callback(WAVEFORM_BUTTON_PIN, {})
    /\ step' = step + 1
    /\ UNCHANGED stored

ScenarioInit == Init /\ variant = "interrupt"
ScenarioNext == MainLoopI \/ (IrqPoint /\ Tick) \/ (IrqPoint /\ ScriptedIrq)
ScenarioSpec == ScenarioInit /\ [][ScenarioNext]_vars

(* ------------------ the main loop under fair scheduling ----------------- *)
\* the keypad pressed at A and D only
LiveKeys == {<<1, 4>>, <<4, 4>>}
LiveNext == MainLoop \/ Environment(LiveKeys)
\* the main loop runs on its own core without pause: whenever it can take a
\* step again and again, it takes one
LiveSpec == Init /\ [][LiveNext]_vars /\ SF_vars(MainLoop)

(* ------------------------------ properties ------------------------------ *)
Clamp(n, lo, hi) == Max(lo, Min(n, hi))
ValidMin(p) == CASE p = "A" -> 100 [] p = "B" -> 1 [] p = "C" -> 50
ValidMax(p) == CASE p = "A" -> 2500 [] p = "B" -> 12000000 [] p = "C" -> 1250
\* the digits the entry buffer of the running build holds
BufferCapacity == IF variant = "interrupt" THEN INPUT_BUFFER_SIZE - 1
                  ELSE STR_SIZE - 1
\* a sample has been converted and is at the output
SampleWritten == pc = "gw_put" \/ (pc = "samples" /\ i > 0)
\* what the output receives: main.c hands dac_value to gpio_put, the polling
\* build hands it to write_dac
SinkCode == IF variant = "interrupt" THEN GpioPutLevel(dac_value)
            ELSE write_dac(dac_value)

\* C1: a confirm that ends the entry "selector of p, digits s" (s not empty,
\* fitting the buffer, denoting n) leaves p = clamp(n, min_p, max_p) and the
\* entry buffer empty, in both builds.
C1_ConfirmCommitsClamped ==
    [][(/\ sess.st = "selecting"
        /\ sess'.st = "idle"
        /\ sess.digs # <<>>
        /\ Len(sess.digs) <= BufferCapacity)
       => LET n == DecimalValue(sess.digs)
              p == sess.par
          IN  /\ p = "A" => amplitude' = Clamp(n, ValidMin(p), ValidMax(p))
              /\ p = "B" => frequency' = Clamp(n, ValidMin(p), ValidMax(p))
              /\ p = "C" => dc_offset' = Clamp(n, ValidMin(p), ValidMax(p))
              /\ inputBuffer' = <<>>
              /\ inputIndex' = 0]_vars

\* C2: in every reachable state of both builds, the initial one included,
\* amplitude is in 100..2500, frequency in 1..12000000, dc_offset in 50..1250.
C2_ParametersInRange ==
    /\ ValidMin("A") <= amplitude /\ amplitude <= ValidMax("A")
    /\ ValidMin("B") <= frequency /\ frequency <= ValidMax("B")
    /\ ValidMin("C") <= dc_offset /\ dc_offset <= ValidMax("C")

\* the order Sine -> Square -> Sawtooth -> Triangular -> Sine
CycleNext(w) ==
    CASE w = SINE -> SQUARE
      [] w = SQUARE -> SAWTOOTH
      [] w = SAWTOOTH -> TRIANGULAR
      [] w = TRIANGULAR -> SINE

\* C3: the waveform starts at Sine, every advance moves it one step in the
\* order Sine -> Square -> Sawtooth -> Triangular -> Sine, and four advances
\* in a row bring back the waveform they started from, in both builds.
C3_WaveformCycle ==
    /\ trail = <<>> => current_waveform = SINE
    /\ trail # <<>> => current_waveform = CycleNext(trail[Len(trail)])
    /\ \A n \in 1..(Len(trail) - 1) : trail[n + 1] = CycleNext(trail[n])
    /\ Len(trail) = 4 => current_waveform = trail[1]

\* four advances by the polled button have gone round the cycle
C3_Witness ==
    /\ variant = "polling"
    /\ trail = <<SQUARE, SAWTOOTH, TRIANGULAR, SINE>>
    /\ current_waveform = SQUARE

C5_IndependentGates ==
    [][(variant = "interrupt" /\ trail = <<>> /\ lastEvent = "key")
       => lastEvent' # "button_ignored"]_vars

\* C6: with the main loop scheduled fairly, a sample is written again and
\* again, whatever the keypad and the button do, in both builds.
C6_SamplingNeverBlocked == []<>SampleWritten

\* C7: in the interrupt build, from the defaults (1000 mV, 10 Hz, 500 mV,
\* Sine) and with every event accepted, A,2,0,0,0,D makes the amplitude
\* 2000, B,9,9,9,9,9,9,9,D then makes the frequency 9999999, the button
\* press then makes the waveform Square, and nothing else changes.
C7_Scenario ==
    /\ amplitude = IF step >= 6 THEN 2000 ELSE 1000
    /\ frequency = IF step >= 15 THEN 9999999 ELSE 10
    /\ current_waveform = IF step >= 16 THEN SQUARE ELSE SINE
    /\ dc_offset = 500

\* the whole scenario has run
C7_Witness ==
    /\ step = Len(ScriptKeys) + 1
    /\ amplitude = 2000
    /\ frequency = 9999999
    /\ current_waveform = SQUARE
    /\ inputBuffer = <<>>

\* C8: with the parameters in their ranges, the code at the output is in
\* 0..255 for every sample, 0 when the scaled sample is below 0 and 255 when
\* it is above 255, in both builds.
C8_QuantizerSaturates ==
    (SampleWritten /\ C2_ParametersInRange)
    => /\ SinkCode \in 0..DAC_MAX_VALUE
       /\ dac_value \in 0..DAC_MAX_VALUE
       /\ scaled < 0 => SinkCode = 0
       /\ scaled > DAC_MAX_VALUE * 1000 => SinkCode = DAC_MAX_VALUE

\* C9: in the interrupt build a selector key empties the digit buffer:
\* while a parameter is selected, the buffer holds the digits pressed since
\* the latest selector key and nothing else.
C9_SelectorEmptiesBuffer ==
    (variant = "interrupt" /\ sess.st = "selecting")
    => (inputBuffer = sess.digs /\ inputIndex = Len(sess.digs))

\* C10: in the interrupt build, a step taken while no parameter is selected
\* (before any selector key, or after a confirm) leaves the digit buffer and
\* its index as they are, or empty as a confirm leaves them; a digit is
\* never added.
C10_IdleDigitIgnored ==
    [][(variant = "interrupt" /\ sess.st = "idle" /\ sess'.st = "idle")
       => \/ UNCHANGED <<inputBuffer, inputIndex>>
          \/ (inputBuffer' = <<>> /\ inputIndex' = 0)]_vars

\* C11: in the interrupt build a confirm returns the entry to Idle: a step
\* taken while no parameter is selected (after a confirm and before the next
\* selector key, or before any selector key) changes none of amplitude,
\* frequency and dc_offset.
C11_IdleChangesNoParameter ==
    [][(variant = "interrupt" /\ sess.st = "idle" /\ sess'.st = "idle")
       => UNCHANGED <<amplitude, frequency, dc_offset>>]_vars

\* C13: in both builds a confirm right after the selector key that the
\* program is serving, the digit buffer empty, stores the lower bound of the selected parameter
\* (amplitude 100, frequency 1, dc_offset 50).
C13_EmptyConfirmStoresMinimum ==
    [][(/\ sess.st = "selecting"
        /\ sess'.st = "idle"
        /\ sess.digs = <<>>
        /\ paramType = sess.par
        /\ inputBuffer = <<>>)
       => /\ sess.par = "A" => amplitude' = ValidMin("A")
          /\ sess.par = "B" => frequency' = ValidMin("B")
          /\ sess.par = "C" => dc_offset' = ValidMin("C")]_vars

\* dc_offset and amplitude / 2 in the unit of `value` (1/2000 mV)
Centre == 2000 * dc_offset
HalfAmplitude == 1000 * amplitude

\* C14: in both builds every Square sample is dc_offset + amplitude/2 or
\* dc_offset - amplitude/2, and it is the upper level whenever
\* sin(2*pi*f*t) >= 0 for the time t it was computed for.
C14_SquareLevels ==
    (SampleWritten /\ current_waveform = SQUARE)
    => /\ value \in {Centre + HalfAmplitude, Centre - HalfAmplitude}
       /\ SinMilli(frequency, time_arg) >= 0 => value = Centre + HalfAmplitude

\* C17: in the polling build a falling edge of the button that
\* waveformButtonCallback accepts (it restarts the debounce interval)
\* advances the waveform by one step.
C17_CallbackAdvances ==
    [][(variant = "polling" /\ elapsed' < elapsed)
       => current_waveform' = CycleNext(current_waveform)]_vars

\* C19: in both builds, with the parameters in their ranges, every sample of
\* every shape lies in [dc_offset - amplitude/2, dc_offset + amplitude/2].
C19_CentredOnOffset ==
    (SampleWritten /\ C2_ParametersInRange)
    => (Centre - HalfAmplitude <= value /\ value <= Centre + HalfAmplitude)

\* the position of the confirm key 'D' in the key map
ConfirmPos == <<4, 4>>

\* the step is the program handling a confirm key
ConfirmStep ==
    \/ KeypadIrq(ConfirmPos)
    \/ key = "D" /\ ReadKey

\* the step is the program accepting a press of the waveform button
AcceptedButtonStep ==
    \/ DebouncePassed(elapsed) /\ ButtonIrq
    \/ buttonDown /\ PollButtonAgain

\* C18: in both builds amplitude, frequency and dc_offset change only in a
\* step that handles the confirm key 'D', and then only the selected one
\* changes (no selector, digit, '*' or '#' changes a parameter); the waveform
\* changes only in a step that accepts a button press, and that step leaves
\* the three parameters, the selected parameter and the digit buffer as they
\* were.
C18_WritersOfTheStore ==
    [][/\ <<amplitude, frequency, dc_offset>>' # <<amplitude, frequency, dc_offset>>
          => /\ ConfirmStep
             /\ amplitude' # amplitude => paramType = "A"
             /\ frequency' # frequency => paramType = "B"
             /\ dc_offset' # dc_offset => paramType = "C"
       /\ current_waveform' # current_waveform
          => /\ AcceptedButtonStep
             /\ UNCHANGED <<amplitude, frequency, dc_offset, paramType,
                            inputBuffer, inputIndex>>]_vars

\* a confirm has stored the digits "2" as the amplitude, the other two
\* parameters still at their defaults, and a button press has moved the
\* waveform to Square with the amplitude entry left as it was
C18_Witness ==
    /\ variant = "interrupt"
    /\ paramType = "A"
    /\ amplitude = 2
    /\ frequency = 10
    /\ dc_offset = 500
    /\ current_waveform = SQUARE
    /\ lastEvent = "button"

(* ---------------------- filling the entry buffer ------------------------ *)
\* the keypad pressed at A, 0 and D only
FillKeys == {<<1, 4>>, <<4, 2>>, <<4, 4>>}
FillAllowed(pos) ==
    isdigit(KeyAt(pos)) => (Len(inputBuffer) < MaxTyped /\ Len(sess.digs) < MaxTyped)

\* the programs with the keypad typed at and the waveform button left alone
FillNext ==
    \/ MainLoopI
    \/ MainScan
    \/ MainDispatch
    \/ ReadScan
    \/ ReadKey
    \/ PollButton
    \/ \E t \in SampleTimes : Sample(t) /\ UNCHANGED clock
    \/ EndBlock /\ UNCHANGED clock
    \/ IrqPoint /\ Tick
    \/ \E pos \in FillKeys : IrqPoint /\ FillAllowed(pos) /\ KeypadIrq(pos)
    \/ \E pos \in FillKeys : PressPoint /\ FillAllowed(pos) /\ KeyPress(pos)
    \/ ReleasePoint /\ KeyRelease

BufferSpec == Init /\ [][FillNext]_vars

\* C12: in both builds the digits written into the entry buffer never exceed
\* its capacity (19 digits in inputBuffer[20], 15 in the 16-character
\* strings of the polling build): the write index stays within the capacity,
\* a digit typed on a full buffer is dropped.
C12_DigitsWithinCapacity ==
    /\ Len(inputBuffer) <= BufferCapacity
    /\ inputIndex <= BufferCapacity

(* ---------------------- the clock of the sampling loop ------------------ *)
\* what time_us_64() has advanced by between two reads, in fifths of a second
ClockSteps == {1, 2}

\* generate_waveform reads the clock: time_step = current_time - last_time,
\* last_time = current_time
ClockedGwCompute ==
    \E d \in ClockSteps :
        /\ now + d <= MaxClock
        /\ now' = now + d
        /\ GwCompute(now' - last_time)
        /\ last_time' = now'
        /\ UNCHANGED prev_arg

\* the sample is put out; its time argument is the previous one from now on
ClockedGwPut ==
    /\ GwPut
    /\ prev_arg' = <<time_arg>>
    /\ UNCHANGED <<now, last_time>>

\* the sample block reads the clock: current_time = time_us_64()
ClockedSample ==
    \E d \in ClockSteps :
        /\ now + d <= MaxClock
        /\ now' = now + d
        /\ Sample(now')
        /\ prev_arg' = IF i > 0 THEN <<time_arg>> ELSE prev_arg
        /\ UNCHANGED last_time

ClockedEndBlock ==
    /\ EndBlock
    /\ prev_arg' = <<time_arg>>
    /\ UNCHANGED <<now, last_time>>

\* the sampling loops with their clock, the waveform button pressed at will
ClockNext ==
    \/ ClockedGwCompute
    \/ ClockedGwPut
    \/ MainScan
    \/ PollButton
    \/ PollButtonAgain
    \/ ClockedSample
    \/ ClockedEndBlock
    \/ IrqPoint /\ Tick
    \/ IrqPoint /\ ButtonIrq
    \/ IrqPoint /\ ButtonPress
    \/ IrqPoint /\ ButtonRelease

ClockSpec == Init /\ [][ClockNext]_vars

\* C20: in both builds the time argument fed to the waveform formula never
\* decreases from one sample to the next.
C20_TimeArgumentMonotone ==
    (SampleWritten /\ prev_arg # NoTime) => time_arg >= prev_arg[1]

(* ------------ the sampling loop preempted by the interrupts ------------- *)
\* history: what the handler that just ran left in the store is recorded
RecordStores ==
    stored' = [f \in FieldSet |->
                  [ever |-> stored[f].ever \cup {StoreImage'[f]},
                   fresh |-> stored[f].fresh \cup {StoreImage'[f]}]]

\* generate_waveform begins a sample: the switch reads current_waveform
GwStart ==
    /\ variant = "interrupt"
    /\ pc = "gw_compute"
    /\ reads' = <<Load(Fields[1])>>
    /\ stored' = [f \in FieldSet |-> [stored[f] EXCEPT !.fresh = {StoreImage[f]}]]
    /\ pc' = "gw_read"
    /\ UNCHANGED <<variant, store, entry, elapsed, key, held, buttonDown, i,
                   output, hist, clock>>

\* the formula of the case reads its next operand
GwRead ==
    /\ variant = "interrupt"
    /\ pc = "gw_read"
    /\ Len(reads) < Len(Fields)
    /\ reads' = Append(reads, Load(Fields[Len(reads) + 1]))
    /\ UNCHANGED <<variant, store, entry, elapsed, pc, key, held, buttonDown, i,
                   output, hist, clock, stored>>

\* the operands read, the sample is computed for time_step = t and converted
GwFinish(t) ==
    /\ variant = "interrupt"
    /\ pc = "gw_read"
    /\ Len(reads) = Len(Fields)
    /\ LET u == WaveValueI(reads[1], reads[2], reads[3], reads[4], t)
       IN  /\ value' = u
           /\ dac_value' \in QuantizeI(u)
           /\ scaled' = ScaledI(u)
    /\ time_arg' = t
    /\ pc' = "gw_put"
    /\ UNCHANGED <<variant, store, entry, elapsed, key, held, buttonDown, i,
                   hist, clock, preempt>>

\* the keypad pressed at A, C and D only
PreemptKeys == {<<1, 4>>, <<3, 4>>, <<4, 4>>}

\* main.c with gpio_callback running between any two steps of
\* generate_waveform; the polling build, whose store only main writes
PreemptNext ==
    \/ GwStart
    \/ GwRead
    \/ \E t \in SampleTimes : GwFinish(t)
    \/ GwPut /\ UNCHANGED clock
    \/ variant = "interrupt" /\ Tick
    \/ gpio_callback(WAVEFORM_BUTTON_PIN, {}) /\ RecordStores /\ UNCHANGED step
    \/ \E pos \in PreemptKeys :
          gpio_callback(colPins[pos[2]], {pos}) /\ RecordStores /\ UNCHANGED step
    \/ MainScan
    \/ MainDispatch
    \/ ReadScan
    \/ ReadKey
    \/ PollButton
    \/ \E t \in SampleTimes : Sample(t) /\ UNCHANGED clock
    \/ EndBlock /\ UNCHANGED clock
    \/ \E pos \in PreemptKeys : PressPoint /\ KeyPress(pos)
    \/ ReleasePoint /\ KeyRelease

PreemptSpec == Init /\ [][PreemptNext]_vars

\* the values generate_waveform has read for the sample in hand (or the last
\* one) are all in the set `which` of their field's history
ReadsAmong(which) ==
    \A n \in DOMAIN reads : reads[n] \in stored[Fields[n]][which]

\* C15: in both builds a committed parameter takes effect within one sample
\* period: a sample is computed from values the store has held since its
\* computation began, so a sample begun after a commit uses the committed
\* value or a later one.
C15_SampleUsesCommitted ==
    /\ variant = "interrupt" =>
          /\ ReadsAmong("fresh")
          /\ pc = "gw_put" =>
                value = WaveValueI(reads[1], reads[2], reads[3], reads[4], time_arg)
    /\ (variant = "polling" /\ SampleWritten) =>
          value = WaveValueP(current_waveform, amplitude, frequency, dc_offset,
                             time_arg)

\* a sample computed wholly from committed values that differ from the
\* defaults: amplitude 0 (interrupt build), dc_offset 50 (polling build)
C15_Witness ==
    \/ /\ variant = "interrupt"
       /\ pc = "gw_put"
       /\ reads[2] = 0
       /\ amplitude = 0
       /\ stored["amplitude"].fresh = {0}
    \/ /\ variant = "polling"
       /\ SampleWritten
       /\ dc_offset = 50
       /\ value = WaveValueP(current_waveform, amplitude, frequency, 50, time_arg)

\* C16: in the interrupt build, gpio_callback preempting generate_waveform
\* between any two of its steps, every value generate_waveform reads is one
\* that was stored whole in that field (the default, a commit or an advance),
\* and the steps of the sampling loop write no field of the store.
C16_ReadsAreStoredValues ==
    [][variant = "interrupt" =>
          /\ ReadsAmong("ever")'
          /\ (pc' # pc \/ reads' # reads)
             => UNCHANGED <<current_waveform, amplitude, frequency, dc_offset>>]_vars

\* a handler has run between two reads of one sample: the amplitude read is
\* the default, the store already holds the committed 0
C16_Witness ==
    /\ variant = "interrupt"
    /\ pc = "gw_read"
    /\ Len(reads) >= 2
    /\ reads[2] = 1000
    /\ amplitude = 0
    /\ stored["amplitude"].ever = {1000, 0}

\* the step is gpio_callback running for an edge on the button or a column
EventStep ==
    \/ ButtonIrq
    \/ \E pos \in KeypadInputs : KeypadIrq(pos)
    \/ \E col \in 1..COLS : KeypadBounceIrq(col)

\* C21: in the interrupt build every event that arrives DEBOUNCE_MS (200 ms)
\* or more after the event accepted last, exactly DEBOUNCE_MS included, is
\* accepted and handled, and the acceptance restarts the interval at the
\* time of the event.
C21_AcceptedFromTheInterval ==
    [][(variant = "interrupt" /\ elapsed >= DEBOUNCE_MS /\ EventStep)
       => (elapsed' = 0 /\ lastEvent' \in {"button", "key"})]_vars

====
